---- MODULE Spec2Model ----
(***************************************************************************)
(* Model of the transaction engine of src/src/tx_engine.rs: the Account    *)
(* Store (clients), the Event History (history), the row loop of           *)
(* TransactionEngine::process and the five processors.                     *)
(*                                                                         *)
(* Amounts are exact fixed-point values: an integer counts units of        *)
(* 0.0001.  The f32 rounding of the reference is outside the model.        *)
(***************************************************************************)
EXTENDS Integers, Sequences, FiniteSets, TLC

VARIABLES
    clients,    \* TransactionEngine.clients : client -> OutputRow
    history,    \* the history map of process(): HistoryKey -> InputRow
    row,        \* the row of the current loop iteration, <<>> before the first
    status,     \* where process() is: "running", "error", "panic", "done"
    output,     \* the rows serialized to the output
    n,          \* number of rows taken from the input
    seen,       \* clients named by the rows of a recognised type taken so far
    depositsOnly, \* per client: <<sum>> while only deposits named it
    solo,       \* per client: the engine run on that client's rows alone
    before,     \* <<account of row's client as the row found it>>, <<>> at the start
    prior,      \* the history as row found it
    roundTrip   \* <<account before the dispute>> when row is a resolve that
                \* directly follows a dispute of the same client and tx, else <<>>

vars == <<clients, history, row, status, output, n, seen, depositsOnly, solo,
          before, prior, roundTrip>>

(***************************************************************************)
(* Bounds.                                                                 *)
(***************************************************************************)
MaxEvents == 4

Clients == {1, 2}
Txs == {1, 2}
Amounts == {-1, 2}
KnownTokens == {"deposit", "withdrawal", "dispute", "resolve", "chargeback"}
UnknownTokens == {"Deposit", "transfer"}

(***************************************************************************)
(* Option<f32>                                                             *)
(***************************************************************************)
None == <<>>
Some(x) == <<x>>
Unwrap(o) == o[1]

InputRow(type, client, tx, amount) ==
    [type |-> type, client |-> client, tx |-> tx, amount |-> amount]

\* The rows the input may hold.  Deposits and withdrawals carry an amount or
\* lack it; the other rows are short rows with no amount field.
Rows ==
    { InputRow(t, c, x, a) : t \in {"deposit", "withdrawal"}, c \in Clients,
                             x \in Txs, a \in {None} \cup {Some(v) : v \in Amounts} }
    \cup
    { InputRow(t, c, x, None) : t \in {"dispute", "resolve", "chargeback"} \cup UnknownTokens,
                                c \in Clients, x \in Txs }

transaction_type(input_row) ==
    CASE input_row.type = "deposit"    -> Some("Deposit")
      [] input_row.type = "withdrawal" -> Some("Withdrawal")
      [] input_row.type = "dispute"    -> Some("Dispute")
      [] input_row.type = "resolve"    -> Some("Resolve")
      [] input_row.type = "chargeback" -> Some("Chargeback")
      [] OTHER                         -> None

HistoryKey(client, tx, tx_type) == <<client, tx, tx_type>>

\* a fresh row that starts locked
NewRowLocked(client) ==
    [client |-> client, available |-> 0, held |-> 0, total |-> 0, locked |-> TRUE]

\* OutputRow { client, ..Default::default() }
NewRow(client) ==
    [client |-> client, available |-> 0, held |-> 0, total |-> 0, locked |-> FALSE]

\* an insert that keeps the entry already stored under key
Insert_KeepFirst(map, key, value) ==
    [k \in DOMAIN map \cup {key} |-> IF k \in DOMAIN map THEN map[k] ELSE value]

\* HashMap::insert: the entry under key is replaced
Insert(map, key, value) ==
    [k \in DOMAIN map \cup {key} |-> IF k = key THEN value ELSE map[k]]

EmptyMap == [k \in {} |-> 0]

create_client_if_non_exists(cl, client) ==
    IF client \notin DOMAIN cl THEN Insert(cl, client, NewRow(client)) ELSE cl

(***************************************************************************)
(* The processors.  Each returns the account, the history and whether an   *)
(* unwrap of an absent amount panicked.                                    *)
(***************************************************************************)
Ret(client_row, hist, panic) ==
    [client_row |-> client_row, history |-> hist, panic |-> panic]

\* process_deposit refusing a locked account
process_deposit_RejectsLocked(input_row, client_row, hist) ==
    IF input_row.amount = None
    THEN Ret(client_row, hist, TRUE)
    ELSE IF client_row.locked THEN Ret(client_row, hist, FALSE)
    ELSE LET amount == Unwrap(input_row.amount) IN
         Ret([client_row EXCEPT !.available = @ + amount, !.total = @ + amount],
             Insert(hist, HistoryKey(input_row.client, input_row.tx, "Deposit"), input_row),
             FALSE)

\* process_deposit with unwrap_or_default() in place of unwrap()
process_deposit_DefaultsAmount(input_row, client_row, hist) ==
    LET amount == IF input_row.amount = None THEN 0 ELSE Unwrap(input_row.amount) IN
    Ret([client_row EXCEPT !.available = @ + amount, !.total = @ + amount],
        Insert(hist, HistoryKey(input_row.client, input_row.tx, "Deposit"), input_row),
        FALSE)

\* process_deposit without `client_row.total += amount`
process_deposit_AvailableOnly(input_row, client_row, hist) ==
    IF input_row.amount = None
    THEN Ret(client_row, hist, TRUE)
    ELSE LET amount == Unwrap(input_row.amount) IN
         Ret([client_row EXCEPT !.available = @ + amount],
             Insert(hist, HistoryKey(input_row.client, input_row.tx, "Deposit"), input_row),
             FALSE)

process_deposit(input_row, client_row, hist) ==
    IF input_row.amount = None
    THEN Ret(client_row, hist, TRUE)
    ELSE LET amount == Unwrap(input_row.amount) IN
         Ret([client_row EXCEPT !.available = @ + amount, !.total = @ + amount],
             Insert(hist, HistoryKey(input_row.client, input_row.tx, "Deposit"), input_row),
             FALSE)

\* process_withdrawal recording the row before it tests the funds
process_withdrawal_RecordsRejected(input_row, client_row, hist) ==
    IF input_row.amount = None
    THEN Ret(client_row, hist, TRUE)
    ELSE LET amount == Unwrap(input_row.amount)
             recorded == Insert(hist, HistoryKey(input_row.client, input_row.tx, "Withdrawal"),
                                input_row)
         IN  IF amount > client_row.available \/ amount > client_row.total
             THEN Ret(client_row, recorded, FALSE)
             ELSE Ret([client_row EXCEPT !.available = @ - amount, !.total = @ - amount],
                      recorded, FALSE)

\* process_withdrawal without the `amount > client_row.total` test
process_withdrawal_AvailableOnly(input_row, client_row, hist) ==
    IF input_row.amount = None
    THEN Ret(client_row, hist, TRUE)
    ELSE LET amount == Unwrap(input_row.amount) IN
         IF amount > client_row.available
         THEN Ret(client_row, hist, FALSE)
         ELSE Ret([client_row EXCEPT !.available = @ - amount, !.total = @ - amount],
                  Insert(hist, HistoryKey(input_row.client, input_row.tx, "Withdrawal"), input_row),
                  FALSE)

process_withdrawal(input_row, client_row, hist) ==
    IF input_row.amount = None
    THEN Ret(client_row, hist, TRUE)
    ELSE LET amount == Unwrap(input_row.amount) IN
         IF amount > client_row.available \/ amount > client_row.total
         THEN Ret(client_row, hist, FALSE)
         ELSE Ret([client_row EXCEPT !.available = @ - amount, !.total = @ - amount],
                  Insert(hist, HistoryKey(input_row.client, input_row.tx, "Withdrawal"), input_row),
                  FALSE)

\* process_dispute ignoring a tx that already has a Dispute entry
process_dispute_OncePerTx(input_row, client_row, hist) ==
    LET expected_key_deposit == HistoryKey(input_row.client, input_row.tx, "Deposit")
        expected_key_withdrawal == HistoryKey(input_row.client, input_row.tx, "Withdrawal")
        expected_key_dispute == HistoryKey(input_row.client, input_row.tx, "Dispute")
        found == expected_key_deposit \in DOMAIN hist
                 \/ expected_key_withdrawal \in DOMAIN hist
        referenced == IF expected_key_deposit \in DOMAIN hist
                      THEN hist[expected_key_deposit]
                      ELSE hist[expected_key_withdrawal]
    IN  IF ~found \/ expected_key_dispute \in DOMAIN hist THEN Ret(client_row, hist, FALSE)
        ELSE IF referenced.amount = None THEN Ret(client_row, hist, TRUE)
        ELSE LET dispute_amount == Unwrap(referenced.amount) IN
             Ret([client_row EXCEPT !.available = @ - dispute_amount,
                                    !.held = @ + dispute_amount],
                 Insert(hist, expected_key_dispute, input_row),
                 FALSE)

\* process_dispute recording the dispute before it looks for the referenced row
process_dispute_RecordsFirst(input_row, client_row, hist) ==
    LET expected_key_deposit == HistoryKey(input_row.client, input_row.tx, "Deposit")
        expected_key_withdrawal == HistoryKey(input_row.client, input_row.tx, "Withdrawal")
        recorded == Insert(hist, HistoryKey(input_row.client, input_row.tx, "Dispute"),
                           input_row)
        found == expected_key_deposit \in DOMAIN hist
                 \/ expected_key_withdrawal \in DOMAIN hist
        referenced == IF expected_key_deposit \in DOMAIN hist
                      THEN hist[expected_key_deposit]
                      ELSE hist[expected_key_withdrawal]
    IN  IF ~found THEN Ret(client_row, recorded, FALSE)
        ELSE IF referenced.amount = None THEN Ret(client_row, recorded, TRUE)
        ELSE LET dispute_amount == Unwrap(referenced.amount) IN
             Ret([client_row EXCEPT !.available = @ - dispute_amount,
                                    !.held = @ + dispute_amount],
                 recorded, FALSE)

\* process_dispute looking the deposit up by tx alone, whoever the client is
process_dispute_AnyClient(input_row, client_row, hist) ==
    LET deposits == { k \in DOMAIN hist : k[2] = input_row.tx /\ k[3] = "Deposit" }
    IN  IF deposits = {} THEN Ret(client_row, hist, FALSE)
        ELSE LET referenced == hist[CHOOSE k \in deposits : \A j \in deposits : k[1] <= j[1]]
                 dispute_amount == Unwrap(referenced.amount)
             IN  Ret([client_row EXCEPT !.available = @ - dispute_amount,
                                        !.held = @ + dispute_amount],
                     Insert(hist, HistoryKey(input_row.client, input_row.tx, "Dispute"),
                            input_row),
                     FALSE)

process_dispute(input_row, client_row, hist) ==
    LET expected_key_deposit == HistoryKey(input_row.client, input_row.tx, "Deposit")
        expected_key_withdrawal == HistoryKey(input_row.client, input_row.tx, "Withdrawal")
        found == expected_key_deposit \in DOMAIN hist
                 \/ expected_key_withdrawal \in DOMAIN hist
        referenced == IF expected_key_deposit \in DOMAIN hist
                      THEN hist[expected_key_deposit]
                      ELSE hist[expected_key_withdrawal]
    IN  IF ~found THEN Ret(client_row, hist, FALSE)
        ELSE IF referenced.amount = None THEN Ret(client_row, hist, TRUE)
        ELSE LET dispute_amount == Unwrap(referenced.amount) IN
             Ret([client_row EXCEPT !.available = @ - dispute_amount,
                                    !.held = @ + dispute_amount],
                 Insert(hist, HistoryKey(input_row.client, input_row.tx, "Dispute"), input_row),
                 FALSE)

\* get_dispute_amount looking the withdrawal up before the deposit
get_dispute_amount_WithdrawalFirst(input_row, hist) ==
    LET expected_key_deposit == HistoryKey(input_row.client, input_row.tx, "Deposit")
        expected_key_withdrawal == HistoryKey(input_row.client, input_row.tx, "Withdrawal")
        expected_key_dispute == HistoryKey(input_row.client, input_row.tx, "Dispute")
    IN  IF expected_key_dispute \in DOMAIN hist
        THEN IF expected_key_withdrawal \in DOMAIN hist
             THEN IF hist[expected_key_withdrawal].amount = None
                  THEN [value |-> None, panic |-> TRUE]
                  ELSE [value |-> Some(Unwrap(hist[expected_key_withdrawal].amount)),
                        panic |-> FALSE]
             ELSE IF expected_key_deposit \in DOMAIN hist
                  THEN IF hist[expected_key_deposit].amount = None
                       THEN [value |-> None, panic |-> TRUE]
                       ELSE [value |-> Some(Unwrap(hist[expected_key_deposit].amount)),
                             panic |-> FALSE]
                  ELSE [value |-> None, panic |-> FALSE]
        ELSE [value |-> None, panic |-> FALSE]

\* get_dispute_amount without the contains_key(expected_key_dispute) test
get_dispute_amount_NoDisputeTest(input_row, hist) ==
    LET expected_key_deposit == HistoryKey(input_row.client, input_row.tx, "Deposit")
        expected_key_withdrawal == HistoryKey(input_row.client, input_row.tx, "Withdrawal")
    IN  IF expected_key_deposit \in DOMAIN hist
        THEN IF hist[expected_key_deposit].amount = None
             THEN [value |-> None, panic |-> TRUE]
             ELSE [value |-> Some(Unwrap(hist[expected_key_deposit].amount)), panic |-> FALSE]
        ELSE IF expected_key_withdrawal \in DOMAIN hist
             THEN IF hist[expected_key_withdrawal].amount = None
                  THEN [value |-> None, panic |-> TRUE]
                  ELSE [value |-> Some(Unwrap(hist[expected_key_withdrawal].amount)),
                        panic |-> FALSE]
             ELSE [value |-> None, panic |-> FALSE]

\* Option<f32>, and whether an unwrap panicked
get_dispute_amount(input_row, hist) ==
    LET expected_key_deposit == HistoryKey(input_row.client, input_row.tx, "Deposit")
        expected_key_withdrawal == HistoryKey(input_row.client, input_row.tx, "Withdrawal")
        expected_key_dispute == HistoryKey(input_row.client, input_row.tx, "Dispute")
    IN  IF expected_key_dispute \in DOMAIN hist
        THEN IF expected_key_deposit \in DOMAIN hist
             THEN IF hist[expected_key_deposit].amount = None
                  THEN [value |-> None, panic |-> TRUE]
                  ELSE [value |-> Some(Unwrap(hist[expected_key_deposit].amount)), panic |-> FALSE]
             ELSE IF expected_key_withdrawal \in DOMAIN hist
                  THEN IF hist[expected_key_withdrawal].amount = None
                       THEN [value |-> None, panic |-> TRUE]
                       ELSE [value |-> Some(Unwrap(hist[expected_key_withdrawal].amount)),
                             panic |-> FALSE]
                  ELSE [value |-> None, panic |-> FALSE]
        ELSE [value |-> None, panic |-> FALSE]

\* process_resolve unlocking the account
process_resolve_Unlocks(input_row, client_row, hist) ==
    LET got == get_dispute_amount(input_row, hist) IN
    IF got.panic THEN Ret(client_row, hist, TRUE)
    ELSE IF got.value # None
    THEN LET dispute_amount == Unwrap(got.value) IN
         Ret([client_row EXCEPT !.held = @ - dispute_amount,
                                !.available = @ + dispute_amount,
                                !.locked = FALSE],
             hist, FALSE)
    ELSE Ret(client_row, hist, FALSE)

\* process_resolve closing the dispute by removing its history entry
process_resolve_RemovesDispute(input_row, client_row, hist) ==
    LET got == get_dispute_amount(input_row, hist) IN
    IF got.panic THEN Ret(client_row, hist, TRUE)
    ELSE IF got.value # None
    THEN LET dispute_amount == Unwrap(got.value)
             key == HistoryKey(input_row.client, input_row.tx, "Dispute")
         IN  Ret([client_row EXCEPT !.held = @ - dispute_amount,
                                    !.available = @ + dispute_amount],
                 [k \in DOMAIN hist \ {key} |-> hist[k]], FALSE)
    ELSE Ret(client_row, hist, FALSE)

\* process_resolve with the body of process_chargeback's arithmetic
process_resolve_FromTotal(input_row, client_row, hist) ==
    LET got == get_dispute_amount(input_row, hist) IN
    IF got.panic THEN Ret(client_row, hist, TRUE)
    ELSE IF got.value # None
    THEN LET dispute_amount == Unwrap(got.value) IN
         Ret([client_row EXCEPT !.held = @ - dispute_amount,
                                !.total = @ - dispute_amount],
             hist, FALSE)
    ELSE Ret(client_row, hist, FALSE)

process_resolve(input_row, client_row, hist) ==
    LET got == get_dispute_amount(input_row, hist) IN
    IF got.panic THEN Ret(client_row, hist, TRUE)
    ELSE IF got.value # None
    THEN LET dispute_amount == Unwrap(got.value) IN
         Ret([client_row EXCEPT !.held = @ - dispute_amount,
                                !.available = @ + dispute_amount],
             hist, FALSE)
    ELSE Ret(client_row, hist, FALSE)

\* process_chargeback removing the entry of the reversed deposit
process_chargeback_RemovesDeposit(input_row, client_row, hist) ==
    LET got == get_dispute_amount(input_row, hist) IN
    IF got.panic THEN Ret(client_row, hist, TRUE)
    ELSE IF got.value # None
    THEN LET dispute_amount == Unwrap(got.value)
             key == HistoryKey(input_row.client, input_row.tx, "Deposit")
         IN  Ret([client_row EXCEPT !.held = @ - dispute_amount,
                                    !.total = @ - dispute_amount,
                                    !.locked = TRUE],
                 [k \in DOMAIN hist \ {key} |-> hist[k]], FALSE)
    ELSE Ret(client_row, hist, FALSE)

\* process_chargeback recording the chargeback in the history
process_chargeback_Records(input_row, client_row, hist) ==
    LET got == get_dispute_amount(input_row, hist) IN
    IF got.panic THEN Ret(client_row, hist, TRUE)
    ELSE IF got.value # None
    THEN LET dispute_amount == Unwrap(got.value) IN
         Ret([client_row EXCEPT !.held = @ - dispute_amount,
                                !.total = @ - dispute_amount,
                                !.locked = TRUE],
             Insert(hist, HistoryKey(input_row.client, input_row.tx, "Chargeback"), input_row),
             FALSE)
    ELSE Ret(client_row, hist, FALSE)

\* process_chargeback without `client_row.locked = true`
process_chargeback_NoLock(input_row, client_row, hist) ==
    LET got == get_dispute_amount(input_row, hist) IN
    IF got.panic THEN Ret(client_row, hist, TRUE)
    ELSE IF got.value # None
    THEN LET dispute_amount == Unwrap(got.value) IN
         Ret([client_row EXCEPT !.held = @ - dispute_amount,
                                !.total = @ - dispute_amount],
             hist, FALSE)
    ELSE Ret(client_row, hist, FALSE)

\* process_chargeback without `client_row.total -= dispute_amount`
process_chargeback_KeepsTotal(input_row, client_row, hist) ==
    LET got == get_dispute_amount(input_row, hist) IN
    IF got.panic THEN Ret(client_row, hist, TRUE)
    ELSE IF got.value # None
    THEN LET dispute_amount == Unwrap(got.value) IN
         Ret([client_row EXCEPT !.held = @ - dispute_amount, !.locked = TRUE],
             hist, FALSE)
    ELSE Ret(client_row, hist, FALSE)

process_chargeback(input_row, client_row, hist) ==
    LET got == get_dispute_amount(input_row, hist) IN
    IF got.panic THEN Ret(client_row, hist, TRUE)
    ELSE IF got.value # None
    THEN LET dispute_amount == Unwrap(got.value) IN
         Ret([client_row EXCEPT !.held = @ - dispute_amount,
                                !.total = @ - dispute_amount,
                                !.locked = TRUE],
             hist, FALSE)
    ELSE Ret(client_row, hist, FALSE)

(***************************************************************************)
(* The router.  result is "Ok", "Err" (the Err returned for an invalid     *)
(* transaction type) or "Panic" (an unwrap of None).                       *)
(***************************************************************************)
\* process_single_transaction creating the account before it resolves the type
process_single_transaction_CreateFirst(input_row, cl, hist) ==
    LET tx_type == transaction_type(input_row)
        cl1 == create_client_if_non_exists(cl, input_row.client)
        client_row == cl1[input_row.client]
    IN  IF tx_type = None
        THEN [clients |-> cl1, history |-> hist, result |-> "Err"]
        ELSE LET ret == CASE tx_type = Some("Deposit") ->
                                process_deposit(input_row, client_row, hist)
                          [] tx_type = Some("Withdrawal") ->
                                process_withdrawal(input_row, client_row, hist)
                          [] tx_type = Some("Dispute") ->
                                process_dispute(input_row, client_row, hist)
                          [] tx_type = Some("Resolve") ->
                                process_resolve(input_row, client_row, hist)
                          [] tx_type = Some("Chargeback") ->
                                process_chargeback(input_row, client_row, hist)
             IN  [clients |-> [cl1 EXCEPT ![input_row.client] = ret.client_row],
                  history |-> ret.history,
                  result  |-> IF ret.panic THEN "Panic" ELSE "Ok"]

process_single_transaction(input_row, cl, hist) ==
    LET tx_type == transaction_type(input_row) IN
    IF tx_type = None
    THEN [clients |-> cl, history |-> hist, result |-> "Err"]
    ELSE LET cl1 == create_client_if_non_exists(cl, input_row.client)
             client_row == cl1[input_row.client]
             ret == CASE tx_type = Some("Deposit") ->
                            process_deposit(input_row, client_row, hist)
                      [] tx_type = Some("Withdrawal") ->
                            process_withdrawal(input_row, client_row, hist)
                      [] tx_type = Some("Dispute") ->
                            process_dispute(input_row, client_row, hist)
                      [] tx_type = Some("Resolve") ->
                            process_resolve(input_row, client_row, hist)
                      [] tx_type = Some("Chargeback") ->
                            process_chargeback(input_row, client_row, hist)
         IN  [clients |-> [cl1 EXCEPT ![input_row.client] = ret.client_row],
              history |-> ret.history,
              result  |-> IF ret.panic THEN "Panic" ELSE "Ok"]

StatusAfter(result) ==
    CASE result = "Ok"    -> "running"
      [] result = "Err"   -> "error"
      [] result = "Panic" -> "panic"

\* A fresh engine and history, as process() builds them
NewEngine == [clients |-> EmptyMap, history |-> EmptyMap, status |-> "running"]

\* One loop iteration of process() on an engine given as a record
RunRow(engine, input_row) ==
    IF engine.status # "running" THEN engine
    ELSE LET res == process_single_transaction(input_row, engine.clients, engine.history)
         IN  [clients |-> res.clients, history |-> res.history,
              status |-> StatusAfter(res.result)]

Init ==
    /\ clients = EmptyMap
    /\ history = EmptyMap
    /\ row = <<>>
    /\ status = "running"
    /\ output = {}
    /\ n = 0
    /\ seen = {}
    /\ depositsOnly = [c \in Clients |-> Some(0)]
    /\ solo = [c \in Clients |-> NewEngine]
    /\ before = <<>>
    /\ prior = EmptyMap
    /\ roundTrip = <<>>

\* One iteration of the while loop of process() on input_row
Step(input_row) ==
    /\ status = "running"
    /\ n < MaxEvents
    /\ LET res == process_single_transaction(input_row, clients, history) IN
        /\ clients' = res.clients
        /\ history' = res.history
        /\ status' = StatusAfter(res.result)
    /\ row' = <<input_row>>
    /\ n' = n + 1
    /\ seen' = IF transaction_type(input_row) # None
               THEN seen \cup {input_row.client} ELSE seen
    /\ depositsOnly' =
         [depositsOnly EXCEPT ![input_row.client] =
            IF @ # None /\ input_row.type = "deposit" /\ input_row.amount # None
            THEN Some(Unwrap(@) + Unwrap(input_row.amount))
            ELSE None]
    /\ solo' = [solo EXCEPT ![input_row.client] = RunRow(@, input_row)]
    /\ before' = IF input_row.client \in DOMAIN clients
                 THEN <<clients[input_row.client]>>
                 ELSE <<NewRow(input_row.client)>>
    /\ prior' = history
    /\ roundTrip' = IF /\ input_row.type = "resolve"
                       /\ row # <<>>
                       /\ row[1].type = "dispute"
                       /\ row[1].client = input_row.client
                       /\ row[1].tx = input_row.tx
                    THEN before
                    ELSE <<>>
    /\ output' = output

Deposit == \E r \in Rows : r.type = "deposit" /\ Step(r)
Withdrawal == \E r \in Rows : r.type = "withdrawal" /\ Step(r)
Dispute == \E r \in Rows : r.type = "dispute" /\ Step(r)
Resolve == \E r \in Rows : r.type = "resolve" /\ Step(r)
Chargeback == \E r \in Rows : r.type = "chargeback" /\ Step(r)
InvalidType == \E r \in Rows : r.type \in UnknownTokens /\ Step(r)

\* rows.next() yields an Err: `result?` returns it
DecodeError ==
    /\ status = "running"
    /\ status' = "error"
    /\ UNCHANGED <<clients, history, row, output, n, seen, depositsOnly, solo,
                   before, prior, roundTrip>>

\* rows.next() yields None: every account is serialized
Finish ==
    /\ status = "running"
    /\ status' = "done"
    /\ output' = { clients[c] : c \in DOMAIN clients }
    /\ UNCHANGED <<clients, history, row, n, seen, depositsOnly, solo,
                   before, prior, roundTrip>>

Next ==
    \/ Deposit
    \/ Withdrawal
    \/ Dispute
    \/ Resolve
    \/ Chargeback
    \/ InvalidType
    \/ DecodeError
    \/ Finish

Spec == Init /\ [][Next]_vars

(***************************************************************************)
(* Vocabulary of the properties.                                           *)
(***************************************************************************)
ZeroAccount(c) ==
    [client |-> c, available |-> 0, held |-> 0, total |-> 0, locked |-> FALSE]

\* The account of c as the next row finds it: a client not yet in the store
\* has the balances of a fresh account
Pre(c) == IF c \in DOMAIN clients THEN clients[c] ELSE ZeroAccount(c)

\* This step is the loop iteration that processed r
Processed(r) == n' = n + 1 /\ row' = <<r>>

Has(hist, c, x, kind) == <<c, x, kind>> \in DOMAIN hist

\* h1 is h0 with r stored under key and nothing else touched
Recorded(h0, h1, key, r) ==
    /\ DOMAIN h1 = DOMAIN h0 \cup {key}
    /\ h1[key] = r
    /\ \A k \in DOMAIN h0 \ {key} : h1[k] = h0[k]

\* The amount a dispute, resolve or chargeback of (c, x) refers to
RefAmount(hist, c, x) ==
    IF Has(hist, c, x, "Deposit")
    THEN hist[<<c, x, "Deposit">>].amount[1]
    ELSE hist[<<c, x, "Withdrawal">>].amount[1]

\* What c can observe of an engine: its account and its history entries
ClientView(cl, hist, c) ==
    [account |-> IF c \in DOMAIN cl THEN <<cl[c]>> ELSE <<>>,
     entries |-> [k \in {j \in DOMAIN hist : j[1] = c} |-> hist[k]]]

(***************************************************************************)
(* C1: in every reachable state every account of the Account Store has     *)
(* total = available + held.                                               *)
(***************************************************************************)
C1_TotalIsAvailablePlusHeld ==
    \A c \in DOMAIN clients :
        clients[c].total = clients[c].available + clients[c].held

\* an account that went through a dispute and a chargeback and still holds funds
C1_Witness ==
    \E c \in DOMAIN clients :
        /\ clients[c].locked
        /\ clients[c].held # 0
        /\ clients[c].available # 0
        /\ row[1].type = "chargeback"

(***************************************************************************)
(* C2: client isolation.  The account and the history entries of a client  *)
(* are those of a run over that client's rows alone, whatever rows of      *)
(* other clients are interleaved; and a row of one client changes neither  *)
(* the account nor the history entries of any other client.                *)
(***************************************************************************)
C2_SameAsSolo ==
    \A c \in Clients :
        ClientView(clients, history, c) = ClientView(solo[c].clients, solo[c].history, c)

C2_OthersUntouched ==
    \A r \in Rows :
        Processed(r) =>
            \A c \in Clients \ {r.client} :
                ClientView(clients', history', c) = ClientView(clients, history, c)

C2_ClientIsolation == []C2_SameAsSolo /\ [][C2_OthersUntouched]_vars

\* client 2 names, in a dispute, resolve or chargeback, a tx recorded only for
\* client 1, while both clients hold funds
C2_Witness ==
    /\ row # <<>>
    /\ row[1].type \in {"dispute", "resolve", "chargeback"}
    /\ row[1].client = 2
    /\ Has(history, 1, row[1].tx, "Deposit")
    /\ ~Has(history, 2, row[1].tx, "Deposit")
    /\ ~Has(history, 2, row[1].tx, "Withdrawal")
    /\ 1 \in DOMAIN clients /\ clients[1].available # 0
    /\ 2 \in DOMAIN clients /\ clients[2].available # 0

(***************************************************************************)
(* C3: a row whose type token is not one of the five known tokens makes    *)
(* process_single_transaction return an error: the Account Store and the   *)
(* Event History stay as they were, and once process() has left the loop   *)
(* no row is processed any more.                                           *)
(***************************************************************************)
C3_UnknownTypeStep ==
    /\ \A r \in Rows :
          (Processed(r) /\ r.type \notin KnownTokens) =>
              /\ status' = "error"
              /\ clients' = clients
              /\ history' = history
    /\ status # "running" => UNCHANGED <<clients, history, row, n, status, output>>

C3_UnknownTypeAborts == [][C3_UnknownTypeStep]_vars

\* the run was aborted by an unknown token naming a client that has no account,
\* after other rows had been applied
C3_Witness ==
    /\ status = "error"
    /\ row # <<>>
    /\ row[1].type \notin KnownTokens
    /\ row[1].client \notin DOMAIN clients
    /\ clients # EmptyMap
    /\ history # EmptyMap

(***************************************************************************)
(* C4: a withdrawal whose amount exceeds available or exceeds total leaves *)
(* the account and the history unchanged; a withdrawal that changes the    *)
(* history was applied.                                                    *)
(***************************************************************************)
C4_WithdrawalStep ==
    \A r \in Rows :
        (Processed(r) /\ r.type = "withdrawal" /\ r.amount # None) =>
            LET a == r.amount[1]
                c == r.client
            IN  /\ (a > Pre(c).available \/ a > Pre(c).total) =>
                       /\ clients'[c] = Pre(c)
                       /\ history' = history
                /\ history' # history =>
                       /\ a <= Pre(c).available /\ a <= Pre(c).total
                       /\ clients'[c] = [Pre(c) EXCEPT !.available = @ - a, !.total = @ - a]
                       /\ Recorded(history, history', <<c, r.tx, "Withdrawal">>, r)

C4_InsufficientFundsIgnored == [][C4_WithdrawalStep]_vars

\* a rejected withdrawal that available alone would have covered: amount is
\* above total only
C4_Witness ==
    /\ row # <<>>
    /\ row[1].type = "withdrawal"
    /\ row[1].amount # None
    /\ status = "running"
    /\ row[1].amount[1] <= clients[row[1].client].available
    /\ row[1].amount[1] > clients[row[1].client].total
    /\ row[1].amount[1] > 0
    /\ ~Has(history, row[1].client, row[1].tx, "Withdrawal")

(***************************************************************************)
(* C5: a dispute of (client, tx) with neither a Deposit nor a Withdrawal   *)
(* entry in the history changes neither the account nor the history, no    *)
(* Dispute entry exists afterwards, and a resolve or chargeback of that tx *)
(* processed next changes nothing either.                                  *)
(***************************************************************************)
C5_DisputeStep ==
    \A r \in Rows :
        (/\ Processed(r)
         /\ r.type = "dispute"
         /\ ~Has(history, r.client, r.tx, "Deposit")
         /\ ~Has(history, r.client, r.tx, "Withdrawal")) =>
            /\ clients'[r.client] = Pre(r.client)
            /\ history' = history
            /\ ~Has(history', r.client, r.tx, "Dispute")
            /\ status' = "running"
            /\ \A t \in {"resolve", "chargeback"} :
                  LET res == process_single_transaction(
                                 InputRow(t, r.client, r.tx, None), clients', history')
                  IN  /\ res.clients = clients'
                      /\ res.history = history'
                      /\ res.result = "Ok"

C5_DisputeOfUnknownTxIgnored == [][C5_DisputeStep]_vars

\* a dispute of a tx that is not recorded for its client (it is recorded for the
\* other client), issued by a client that holds funds
C5_Witness ==
    /\ row # <<>>
    /\ row[1].type = "dispute"
    /\ ~Has(history, row[1].client, row[1].tx, "Deposit")
    /\ ~Has(history, row[1].client, row[1].tx, "Withdrawal")
    /\ \E c \in Clients \ {row[1].client} : Has(history, c, row[1].tx, "Deposit")
    /\ clients[row[1].client].available # 0

(***************************************************************************)
(* C6: a resolve or a chargeback of (client, tx) with no Dispute entry in  *)
(* the history changes neither the account (locked included) nor the       *)
(* history, even when a deposit or withdrawal of that tx is recorded.      *)
(***************************************************************************)
C6_ResolveChargebackStep ==
    \A r \in Rows :
        (/\ Processed(r)
         /\ r.type \in {"resolve", "chargeback"}
         /\ ~Has(history, r.client, r.tx, "Dispute")) =>
            /\ clients'[r.client] = Pre(r.client)
            /\ history' = history
            /\ status' = "running"

C6_NoDisputeNoEffect == [][C6_ResolveChargebackStep]_vars

\* a chargeback of a recorded, undisputed deposit on an unlocked account with funds
C6_Witness ==
    /\ row # <<>>
    /\ row[1].type = "chargeback"
    /\ Has(history, row[1].client, row[1].tx, "Deposit")
    /\ ~Has(history, row[1].client, row[1].tx, "Dispute")
    /\ ~clients[row[1].client].locked
    /\ clients[row[1].client].available # 0

(***************************************************************************)
(* C7: a deposit of amount a adds a to available and to total, leaves held *)
(* and locked alone and is recorded under (client, tx, Deposit); while     *)
(* only deposits have named a client, its available and total equal the    *)
(* sum of the deposited amounts, held is 0 and locked is false.            *)
(***************************************************************************)
C7_DepositStep ==
    \A r \in Rows :
        (Processed(r) /\ r.type = "deposit" /\ r.amount # None) =>
            /\ clients'[r.client] = [Pre(r.client) EXCEPT !.available = @ + r.amount[1],
                                                          !.total = @ + r.amount[1]]
            /\ Recorded(history, history', <<r.client, r.tx, "Deposit">>, r)
            /\ status' = "running"

C7_DepositsSumUp ==
    \A c \in Clients :
        (depositsOnly[c] # None /\ c \in DOMAIN clients) =>
            /\ clients[c].available = depositsOnly[c][1]
            /\ clients[c].total = depositsOnly[c][1]
            /\ clients[c].held = 0
            /\ ~clients[c].locked

C7_DepositApplies == []C7_DepositsSumUp /\ [][C7_DepositStep]_vars

\* three deposits and nothing else for client 1: 2 + 2 - 1
C7_Witness ==
    /\ depositsOnly[1] = Some(3)
    /\ n = 3
    /\ row[1].type = "deposit"
    /\ clients[1].available = 3

(***************************************************************************)
(* C8: a dispute of a tx with a recorded deposit or withdrawal moves the   *)
(* referenced amount from available to held and leaves total and locked    *)
(* alone; a resolve of the same tx directly after it restores the account  *)
(* to what it was before the dispute.                                      *)
(***************************************************************************)
C8_DisputeStep ==
    \A r \in Rows :
        (/\ Processed(r)
         /\ r.type = "dispute"
         /\ \/ Has(history, r.client, r.tx, "Deposit")
            \/ Has(history, r.client, r.tx, "Withdrawal")) =>
            LET a == RefAmount(history, r.client, r.tx) IN
            clients'[r.client] = [Pre(r.client) EXCEPT !.available = @ - a, !.held = @ + a]

C8_Restored ==
    (/\ roundTrip # <<>>
     /\ \/ Has(history, row[1].client, row[1].tx, "Deposit")
        \/ Has(history, row[1].client, row[1].tx, "Withdrawal")) =>
        /\ status # "panic"
        /\ clients[row[1].client] = roundTrip[1]

C8_DisputeResolveRoundTrip == []C8_Restored /\ [][C8_DisputeStep]_vars

\* a dispute and a resolve of a recorded withdrawal, on an account with funds
C8_Witness ==
    /\ roundTrip # <<>>
    /\ Has(history, row[1].client, row[1].tx, "Withdrawal")
    /\ ~Has(history, row[1].client, row[1].tx, "Deposit")
    /\ Has(history, row[1].client, row[1].tx, "Dispute")
    /\ clients[row[1].client].available # 0

(***************************************************************************)
(* C9: a chargeback of (client, tx) with a recorded dispute takes the      *)
(* referenced amount from held and from total, leaves available alone and  *)
(* sets locked; deposit, dispute, chargeback on a fresh account ends with  *)
(* available = held = total = 0 and locked.                                *)
(***************************************************************************)
C9_ChargebackStep ==
    \A r \in Rows :
        (/\ Processed(r)
         /\ r.type = "chargeback"
         /\ Has(history, r.client, r.tx, "Dispute")) =>
            LET a == RefAmount(history, r.client, r.tx) IN
            /\ clients'[r.client] = [Pre(r.client) EXCEPT !.held = @ - a,
                                                          !.total = @ - a,
                                                          !.locked = TRUE]
            /\ history' = history
            /\ status' = "running"

\* With three rows taken, the last a chargeback of (c, x), and a history of just
\* the Deposit and the Dispute of (c, x), the input was deposit, dispute, chargeback
C9_ScenarioD ==
    (/\ n = 3
     /\ row[1].type = "chargeback"
     /\ DOMAIN history = { <<row[1].client, row[1].tx, "Deposit">>,
                           <<row[1].client, row[1].tx, "Dispute">> }) =>
        /\ DOMAIN clients = {row[1].client}
        /\ clients[row[1].client] =
              [client |-> row[1].client, available |-> 0, held |-> 0, total |-> 0,
               locked |-> TRUE]

C9_ChargebackLocks == []C9_ScenarioD /\ [][C9_ChargebackStep]_vars

\* the end of scenario D
C9_Witness ==
    /\ n = 3
    /\ row[1].type = "chargeback"
    /\ DOMAIN history = { <<row[1].client, row[1].tx, "Deposit">>,
                          <<row[1].client, row[1].tx, "Dispute">> }
    /\ history[<<row[1].client, row[1].tx, "Deposit">>].amount = Some(2)
    /\ clients[row[1].client].locked

(***************************************************************************)
(* C10: the Account Store holds an account for c exactly when a row of a   *)
(* recognised type naming c has been taken; an account is created with     *)
(* zero balances and unlocked, is stored under its own client id, is never *)
(* deleted, and the output has exactly one row per such client.            *)
(***************************************************************************)
C10_Store ==
    /\ DOMAIN clients = seen
    /\ \A c \in DOMAIN clients : clients[c].client = c
    /\ status = "done" =>
          /\ output = { clients[c] : c \in seen }
          /\ \A c \in seen : Cardinality({ o \in output : o.client = c }) = 1
          /\ \A o \in output : o.client \in seen
    /\ status # "done" => output = {}

\* The balance a fresh account shows after the row that created it
C10_FirstBalance(r) ==
    CASE r.type = "deposit" /\ r.amount # None -> r.amount[1]
      [] r.type = "withdrawal" /\ r.amount # None /\ r.amount[1] <= 0 -> 0 - r.amount[1]
      [] OTHER -> 0

C10_StoreStep ==
    /\ DOMAIN clients \subseteq DOMAIN clients'
    /\ \A r \in Rows :
          (Processed(r) /\ r.client \notin DOMAIN clients /\ r.type \in KnownTokens) =>
              /\ DOMAIN clients' = DOMAIN clients \cup {r.client}
              /\ clients'[r.client] =
                    [client |-> r.client, available |-> C10_FirstBalance(r), held |-> 0,
                     total |-> C10_FirstBalance(r), locked |-> FALSE]

C10_AccountsCreatedLazily == []C10_Store /\ [][C10_StoreStep]_vars

\* the output of a run in which one client was only named by ignored rows
C10_Witness ==
    /\ status = "done"
    /\ Cardinality(output) = 2
    /\ \E o \in output : o = ZeroAccount(o.client)
    /\ \E c \in seen : \A k \in DOMAIN history : k[1] # c
    /\ row[1].type \in {"dispute", "resolve", "chargeback"}

(***************************************************************************)
(* Rows that the processors ignore: a withdrawal above available or above  *)
(* total, a dispute with no Deposit and no Withdrawal entry, a resolve or  *)
(* chargeback with no Dispute entry.                                       *)
(***************************************************************************)
Ignored(r) ==
    \/ /\ r.type = "withdrawal"
       /\ r.amount # None
       /\ r.amount[1] > Pre(r.client).available \/ r.amount[1] > Pre(r.client).total
    \/ /\ r.type = "dispute"
       /\ ~Has(history, r.client, r.tx, "Deposit")
       /\ ~Has(history, r.client, r.tx, "Withdrawal")
    \/ /\ r.type \in {"resolve", "chargeback"}
       /\ ~Has(history, r.client, r.tx, "Dispute")

\* The key under which a row is recorded
KeyOf(r) == <<r.client, r.tx, transaction_type(r)[1]>>

(***************************************************************************)
(* C11 as stated: an ignored row changes neither the set of accounts, nor  *)
(* any account, nor the history, also when it names a client that has no   *)
(* account yet.                                                            *)
(***************************************************************************)
C11_IgnoredStepNoChange ==
    \A r \in Rows :
        (Processed(r) /\ Ignored(r)) => (clients' = clients /\ history' = history)

C11_Original == [][C11_IgnoredStepNoChange]_vars

(***************************************************************************)
(* C11 amended: an ignored row leaves the history and every existing       *)
(* account unchanged; when it names a client that has no account yet, the  *)
(* Account Store gains a zero, unlocked account for that client and        *)
(* nothing else changes.                                                   *)
(***************************************************************************)
C11_IgnoredStep ==
    \A r \in Rows :
        (Processed(r) /\ Ignored(r)) =>
            /\ history' = history
            /\ status' = "running"
            /\ DOMAIN clients' = DOMAIN clients \cup {r.client}
            /\ \A c \in DOMAIN clients : clients'[c] = clients[c]
            /\ r.client \notin DOMAIN clients => clients'[r.client] = ZeroAccount(r.client)

C11_IgnoredRowOnlyCreates == [][C11_IgnoredStep]_vars

\* the second row is an ignored row of a client the first row did not name
C11_Witness ==
    /\ n = 2
    /\ status = "running"
    /\ row[1].type \in {"withdrawal", "dispute", "resolve", "chargeback"}
    /\ history = prior
    /\ \A k \in DOMAIN history : k[1] # row[1].client
    /\ history # EmptyMap
    /\ clients[row[1].client] = ZeroAccount(row[1].client)
    /\ Cardinality(DOMAIN clients) = 2

(***************************************************************************)
(* C12: every key of the history has kind Deposit, Withdrawal or Dispute,  *)
(* and a resolve or chargeback, applied or ignored, leaves the history     *)
(* unchanged.                                                              *)
(***************************************************************************)
C12_Kinds ==
    \A k \in DOMAIN history : k[3] \in {"Deposit", "Withdrawal", "Dispute"}

C12_ReadOnlyStep ==
    \A r \in Rows :
        (Processed(r) /\ r.type \in {"resolve", "chargeback"}) => history' = history

C12_OnlyThreeKindsRecorded == []C12_Kinds /\ [][C12_ReadOnlyStep]_vars

\* an applied chargeback on a history that holds all three kinds
C12_Witness ==
    /\ row # <<>>
    /\ row[1].type = "chargeback"
    /\ clients[row[1].client].locked
    /\ { k[3] : k \in DOMAIN history } = {"Deposit", "Withdrawal", "Dispute"}
    /\ clients[row[1].client] # before[1]

(***************************************************************************)
(* C13 as stated: the entry stored under a key of the history is never     *)
(* deleted and never changed by a later row.                               *)
(***************************************************************************)
C13_EntriesFrozenStep ==
    \A k \in DOMAIN history : k \in DOMAIN history' /\ history'[k] = history[k]

C13_Original == [][C13_EntriesFrozenStep]_vars

(***************************************************************************)
(* C13 amended: an entry of the history is never deleted, and the entry    *)
(* under a key changes only in the step of a later deposit, withdrawal or  *)
(* dispute that is recorded under that same (client, tx, kind), which      *)
(* replaces the entry by the later row.                                    *)
(***************************************************************************)
C13_EntriesStep ==
    \A k \in DOMAIN history :
        /\ k \in DOMAIN history'
        /\ history'[k] # history[k] =>
              \E r \in Rows :
                  /\ Processed(r)
                  /\ r.type \in {"deposit", "withdrawal", "dispute"}
                  /\ k = KeyOf(r)
                  /\ history'[k] = r

C13_EntriesReplacedOnlyByReuse == [][C13_EntriesStep]_vars

\* a deposit replaced the entry of an earlier deposit with another amount, while
\* another entry stayed as it was
C13_Witness ==
    /\ row # <<>>
    /\ row[1].type = "deposit"
    /\ KeyOf(row[1]) \in DOMAIN prior
    /\ prior[KeyOf(row[1])].amount # row[1].amount
    /\ history[KeyOf(row[1])] = row[1]
    /\ \E k \in DOMAIN prior : k # KeyOf(row[1]) /\ history[k] = prior[k]

(***************************************************************************)
(* Two deposits of one client under one tx id: row is the second deposit,  *)
(* prior holds the entry of the first.                                     *)
(***************************************************************************)
SecondDeposit ==
    /\ row # <<>>
    /\ status = "running"
    /\ row[1].type = "deposit"
    /\ KeyOf(row[1]) \in DOMAIN prior

\* Both deposits had their monetary effect
C14_BothApplied ==
    SecondDeposit =>
        LET c == row[1].client
            a1 == prior[KeyOf(row[1])].amount[1]
            a2 == row[1].amount[1]
        IN  /\ clients[c].available = before[1].available + a2
            /\ clients[c].total = before[1].total + a2
            /\ (n = 2 /\ depositsOnly[c] # None) =>
                   (clients[c].available = a1 + a2 /\ clients[c].total = a1 + a2)

\* A dispute right after the second deposit moves amount a, and the resolve and
\* the chargeback that would follow use a as well
C14_DisputeUses(r, a) ==
    /\ clients'[r.client] = [clients[r.client] EXCEPT !.available = @ - a, !.held = @ + a]
    /\ LET res == process_single_transaction(
                      InputRow("resolve", r.client, r.tx, None), clients', history')
       IN  res.clients[r.client] =
               [clients'[r.client] EXCEPT !.held = @ - a, !.available = @ + a]
    /\ LET res == process_single_transaction(
                      InputRow("chargeback", r.client, r.tx, None), clients', history')
       IN  res.clients[r.client] =
               [clients'[r.client] EXCEPT !.held = @ - a, !.total = @ - a, !.locked = TRUE]

(***************************************************************************)
(* C14 as stated: after two deposits a1 then a2 under one (client, tx),    *)
(* both have had their monetary effect and a dispute, resolve or           *)
(* chargeback of that tx uses the first amount a1.                         *)
(***************************************************************************)
C14_FirstWriterStep ==
    \A r \in Rows :
        (/\ Processed(r)
         /\ r.type = "dispute"
         /\ SecondDeposit
         /\ r.client = row[1].client
         /\ r.tx = row[1].tx) =>
            C14_DisputeUses(r, prior[KeyOf(row[1])].amount[1])

C14_Original == []C14_BothApplied /\ [][C14_FirstWriterStep]_vars

(***************************************************************************)
(* C14 amended: after two deposits a1 then a2 under one (client, tx), both *)
(* have had their monetary effect and a dispute, resolve or chargeback of  *)
(* that tx uses the last amount a2.                                        *)
(***************************************************************************)
C14_LastWriterStep ==
    \A r \in Rows :
        (/\ Processed(r)
         /\ r.type = "dispute"
         /\ SecondDeposit
         /\ r.client = row[1].client
         /\ r.tx = row[1].tx) =>
            C14_DisputeUses(r, row[1].amount[1])

C14_LastWriterWins == []C14_BothApplied /\ [][C14_LastWriterStep]_vars

\* deposits of -1 and 2 under one tx id, then its dispute: three rows, one client,
\* one Deposit entry, total 1
C14_Witness ==
    /\ n = 3
    /\ row[1].type = "dispute"
    /\ DOMAIN clients = {row[1].client}
    /\ DOMAIN history = { <<row[1].client, row[1].tx, "Deposit">>,
                          <<row[1].client, row[1].tx, "Dispute">> }
    /\ clients[row[1].client].total = 1
    /\ clients[row[1].client].held = history[<<row[1].client, row[1].tx, "Deposit">>].amount[1]

(***************************************************************************)
(* C15: the amount of a dispute, resolve or chargeback of (client, tx) is  *)
(* that of the Deposit entry when there is one and of the Withdrawal entry *)
(* otherwise.  A dispute with such an entry moves the amount from          *)
(* available to held, leaves total and locked alone and is recorded under  *)
(* (client, tx, Dispute); a disputed withdrawal is treated as a disputed   *)
(* deposit.                                                                *)
(***************************************************************************)
DepositFirstAmount(hist, c, x) ==
    IF <<c, x, "Deposit">> \in DOMAIN hist
    THEN hist[<<c, x, "Deposit">>].amount[1]
    ELSE hist[<<c, x, "Withdrawal">>].amount[1]

C15_RecoveryStep ==
    \A r \in Rows :
        LET c == r.client
            a == DepositFirstAmount(history, c, r.tx)
            referenced == Has(history, c, r.tx, "Deposit") \/ Has(history, c, r.tx, "Withdrawal")
        IN  /\ (Processed(r) /\ r.type = "dispute" /\ referenced) =>
                  /\ clients'[c] = [clients[c] EXCEPT !.available = @ - a, !.held = @ + a]
                  /\ Recorded(history, history', <<c, r.tx, "Dispute">>, r)
            /\ (Processed(r) /\ r.type = "resolve" /\ Has(history, c, r.tx, "Dispute")) =>
                  clients'[c] = [clients[c] EXCEPT !.held = @ - a, !.available = @ + a]
            /\ (Processed(r) /\ r.type = "chargeback" /\ Has(history, c, r.tx, "Dispute")) =>
                  clients'[c] = [clients[c] EXCEPT !.held = @ - a, !.total = @ - a,
                                                   !.locked = TRUE]

C15_DepositCheckedFirst == [][C15_RecoveryStep]_vars

\* a resolve or chargeback of a tx recorded both as a deposit and as a withdrawal,
\* with different amounts
C15_Witness ==
    /\ row # <<>>
    /\ row[1].type \in {"resolve", "chargeback"}
    /\ Has(history, row[1].client, row[1].tx, "Deposit")
    /\ Has(history, row[1].client, row[1].tx, "Withdrawal")
    /\ Has(history, row[1].client, row[1].tx, "Dispute")
    /\ history[<<row[1].client, row[1].tx, "Deposit">>].amount
         # history[<<row[1].client, row[1].tx, "Withdrawal">>].amount

(***************************************************************************)
(* C16: there is no per-transaction status.  A dispute of a tx that is     *)
(* already disputed moves the amount again; once a Dispute entry exists    *)
(* every resolve and every chargeback of the tx applies, also right after  *)
(* a resolve; a second resolve after dispute, resolve takes held below     *)
(* what it was before the dispute.                                         *)
(***************************************************************************)
C16_ReplayStep ==
    \A r \in Rows :
        LET c == r.client
            a == DepositFirstAmount(history, c, r.tx)
        IN  /\ (Processed(r) /\ r.type = "dispute" /\ Has(history, c, r.tx, "Dispute")) =>
                  /\ clients'[c].available = clients[c].available - a
                  /\ clients'[c].held = clients[c].held + a
            /\ (/\ Processed(r)
                /\ r.type \in {"resolve", "chargeback"}
                /\ Has(history, c, r.tx, "Dispute")
                /\ row[1].type \in {"resolve", "chargeback"}
                /\ row[1].client = c /\ row[1].tx = r.tx) =>
                  /\ clients'[c].held = clients[c].held - a
                  /\ Has(history', c, r.tx, "Dispute")
            /\ (/\ Processed(r)
                /\ r.type = "resolve"
                /\ roundTrip # <<>>
                /\ row[1].client = c /\ row[1].tx = r.tx
                /\ Has(history, c, r.tx, "Dispute")) =>
                  /\ clients'[c].held = roundTrip[1].held - a
                  /\ clients'[c].available = roundTrip[1].available + a

C16_NoDisputeStatus == [][C16_ReplayStep]_vars

\* deposit 2, dispute, resolve, resolve: held is -2 and available 4
C16_Witness ==
    /\ n = 4
    /\ row[1].type = "resolve"
    /\ DOMAIN clients = {row[1].client}
    /\ DOMAIN history = { <<row[1].client, row[1].tx, "Deposit">>,
                          <<row[1].client, row[1].tx, "Dispute">> }
    /\ clients[row[1].client].held = -2
    /\ clients[row[1].client].available = 4
    /\ clients[row[1].client].total = 2

(***************************************************************************)
(* C17: whenever the history holds a (client, tx, Dispute) entry it holds  *)
(* a (client, tx, Deposit) or a (client, tx, Withdrawal) entry, so         *)
(* get_dispute_amount returns an amount whenever it finds the dispute.     *)
(***************************************************************************)
C17_DisputeHasReferent ==
    \A k \in DOMAIN history :
        k[3] = "Dispute" =>
            /\ Has(history, k[1], k[2], "Deposit") \/ Has(history, k[1], k[2], "Withdrawal")
            /\ get_dispute_amount(InputRow("resolve", k[1], k[2], None), history).value # None

\* a chargeback was applied to the dispute of a withdrawal that has no deposit
C17_Witness ==
    /\ row # <<>>
    /\ row[1].type = "chargeback"
    /\ Has(history, row[1].client, row[1].tx, "Dispute")
    /\ Has(history, row[1].client, row[1].tx, "Withdrawal")
    /\ ~Has(history, row[1].client, row[1].tx, "Deposit")
    /\ clients[row[1].client].locked

(***************************************************************************)
(* C18: no processor reads locked.  Every row that is processed gives, on  *)
(* the account with locked flipped, the same available, held and total,    *)
(* the same history and the same result as it gave; deposits, withdrawals  *)
(* and disputes apply to a locked account.                                 *)
(***************************************************************************)
Balances(account) ==
    <<account.available, account.held, account.total>>

C18_LockedNotRead ==
    \A r \in Rows :
        (Processed(r) /\ r.client \in DOMAIN clients) =>
            LET c == r.client
                flipped == [clients EXCEPT ![c].locked = ~@]
                other == process_single_transaction(r, flipped, history)
            IN  /\ Balances(clients'[c]) = Balances(other.clients[c])
                /\ history' = other.history
                /\ status' = StatusAfter(other.result)

C18_LockedStep ==
    \A r \in Rows :
        (Processed(r) /\ r.client \in DOMAIN clients /\ clients[r.client].locked) =>
            LET c == r.client IN
            /\ (r.type = "deposit" /\ r.amount # None) =>
                  /\ clients'[c] = [clients[c] EXCEPT !.available = @ + r.amount[1],
                                                      !.total = @ + r.amount[1]]
                  /\ Has(history', c, r.tx, "Deposit")
            /\ (/\ r.type = "withdrawal" /\ r.amount # None
                /\ r.amount[1] <= clients[c].available /\ r.amount[1] <= clients[c].total) =>
                  /\ clients'[c] = [clients[c] EXCEPT !.available = @ - r.amount[1],
                                                      !.total = @ - r.amount[1]]
                  /\ Has(history', c, r.tx, "Withdrawal")
            /\ (/\ r.type = "dispute"
                /\ Has(history, c, r.tx, "Deposit") \/ Has(history, c, r.tx, "Withdrawal")) =>
                  /\ clients'[c].held
                        = clients[c].held + DepositFirstAmount(history, c, r.tx)
                  /\ Has(history', c, r.tx, "Dispute")

C18_LockedIsIgnored == [][C18_LockedNotRead /\ C18_LockedStep]_vars

\* a deposit was applied to an account that a chargeback had locked
C18_Witness ==
    /\ row # <<>>
    /\ row[1].type = "deposit"
    /\ status = "running"
    /\ before[1].locked
    /\ clients[row[1].client].locked
    /\ clients[row[1].client].available = before[1].available + row[1].amount[1]

(***************************************************************************)
(* C19: locked is false when an account is created, becomes true only in   *)
(* the step of a chargeback of that client that found a recorded dispute   *)
(* and its amount, and never becomes false again.                          *)
(***************************************************************************)
C19_LockedStep ==
    \A c \in DOMAIN clients' :
        /\ (c \in DOMAIN clients /\ clients[c].locked) => clients'[c].locked
        /\ (clients'[c].locked /\ ~(c \in DOMAIN clients /\ clients[c].locked)) =>
              \E r \in Rows :
                  /\ Processed(r)
                  /\ r.type = "chargeback"
                  /\ r.client = c
                  /\ c \in DOMAIN clients
                  /\ Has(history, c, r.tx, "Dispute")
                  /\ Has(history, c, r.tx, "Deposit") \/ Has(history, c, r.tx, "Withdrawal")

C19_LockedMonotonic == [][C19_LockedStep]_vars

\* a resolve was applied to a locked account, which stays locked
C19_Witness ==
    /\ row # <<>>
    /\ row[1].type = "resolve"
    /\ before[1].locked
    /\ clients[row[1].client].locked
    /\ clients[row[1].client].available # before[1].available

(***************************************************************************)
(* C20: every Deposit and every Withdrawal entry of the history has its    *)
(* amount, so a dispute, resolve or chargeback never panics at an unwrap;  *)
(* a panic is the step of a deposit or withdrawal row with no amount.      *)
(***************************************************************************)
C20_AmountsPresent ==
    \A k \in DOMAIN history :
        k[3] \in {"Deposit", "Withdrawal"} => history[k].amount # None

C20_UnwrapStep ==
    \A r \in Rows :
        Processed(r) =>
            /\ r.type \in {"dispute", "resolve", "chargeback"} => status' = "running"
            /\ status' = "panic" <=> (r.type \in {"deposit", "withdrawal"} /\ r.amount = None)

C20_UnwrapsOfReferencedAmountsSucceed == []C20_AmountsPresent /\ [][C20_UnwrapStep]_vars

\* a withdrawal row with no amount panicked after a dispute had been applied
C20_Witness ==
    /\ status = "panic"
    /\ row[1].type = "withdrawal"
    /\ row[1].amount = None
    /\ \E k \in DOMAIN history : k[3] = "Dispute"
    /\ history = prior

====
